---- MODULE Spec2Model ----
(***************************************************************************)
(* A model of the InfyndChatbot repository: the four Flask applications    *)
(* (app.py, sampleapp.py, test2.py, test3.py) and the document loader of   *)
(* src/helper.py.                                                          *)
(*                                                                         *)
(* Text is a sequence of lexemes: one lexeme is a single character (a      *)
(* blank, a brace, a colon, a comma, a letter), one complete JSON string   *)
(* literal, or one Markdown code fence.  No string literal of the alphabet *)
(* contains a brace, so str.split("{", 1) on the text and on its lexemes   *)
(* agree.                                                                  *)
(***************************************************************************)
EXTENDS Integers, Sequences, FiniteSets, TLC

VARIABLES
  given,            \* how the language model's raw answer was put together
  raw_answer,       \* response.get("answer", "")
  human_part,
  json_part,
  filters,
  raised,           \* an exception left the extraction step
  pc,
  variant,          \* the application that is running
  mongo_connected,  \* the MongoDB setup at import defined chat_collection
  chat_collection,  \* the documents of chat_history, in insertion order
  clock,            \* the latest second datetime.now() has returned
  request,          \* the last request and what its collaborators did
  response,         \* the last response
  data_folder,      \* the files of the folder, in os.listdir order
  file_idx,         \* the file the loop of load_json_files is at
  documents,        \* the list load_json_files builds
  loader_pc

extractVars == <<given, raw_answer, human_part, json_part, filters, raised, pc>>
httpVars == <<variant, mongo_connected, chat_collection, clock, request, response>>
loaderVars == <<data_folder, file_idx, documents, loader_pc>>
vars == <<extractVars, httpVars, loaderVars>>

(***************************************************************************)
(* Lexemes                                                                 *)
(***************************************************************************)
WS == " "
LB == "{"
RB == "}"
COLON == ":"
COMMA == ","
LETTER == "a"
EOF == ""

\* the lexemes of a Markdown code fence: three backquotes, with or without "json"
FENCE_JSON == "[fence]json"
FENCE == "[fence]"

\* the JSON string literals of the alphabet and the string each denotes
LitText ==
  [t \in {"\"filters\"", "\"x\"", "\"summary\"", "\"validated_output\"",
          "\"elasticsearch_query\""} |->
     CASE t = "\"filters\"" -> "filters"
       [] t = "\"x\"" -> "x"
       [] t = "\"summary\"" -> "summary"
       [] t = "\"validated_output\"" -> "validated_output"
       [] t = "\"elasticsearch_query\"" -> "elasticsearch_query"]

StrLits == DOMAIN LitText

Quote(k) == CHOOSE t \in StrLits : LitText[t] = k

SeqsUpTo(S, n) == UNION {[1..k -> S] : k \in 0..n}

(***************************************************************************)
(* JSON values, as json.loads returns them: a str (its text, a sequence)   *)
(* or a dict (a function from its keys)                                    *)
(***************************************************************************)
JStr(t) == [kind |-> "str", s |-> t, m |-> <<>>]
JObj(f) == [kind |-> "obj", s |-> <<>>, m |-> f]
EmptyObj == JObj(<<>>)

(***************************************************************************)
(* str.strip(): the text without its leading and trailing blanks           *)
(***************************************************************************)
RECURSIVE lstrip(_)
lstrip(s) == IF s # <<>> /\ Head(s) = WS THEN lstrip(Tail(s)) ELSE s

RECURSIVE rstrip(_)
rstrip(s) ==
  IF s # <<>> /\ s[Len(s)] = WS THEN rstrip(SubSeq(s, 1, Len(s) - 1)) ELSE s

strip(s) == rstrip(lstrip(s))

(***************************************************************************)
(* json.loads, restricted to the alphabet                                  *)
(***************************************************************************)
At(s, i) == IF i >= 1 /\ i <= Len(s) THEN s[i] ELSE EOF

\* json.decoder.WHITESPACE.match(s, i).end()
RECURSIVE SkipWs(_, _)
SkipWs(s, i) == IF At(s, i) = WS THEN SkipWs(s, i + 1) ELSE i

JSONDecodeError == [ok |-> FALSE, val |-> EmptyObj, end |-> 0]
Decoded(v, e) == [ok |-> TRUE, val |-> v, end |-> e]

RECURSIVE scan_once(_, _)
RECURSIVE JSONObject(_, _)
RECURSIVE ObjectPairs(_, _, _)

\* the value that starts at s[idx]
scan_once(s, idx) ==
  LET c == At(s, idx) IN
  IF c \in StrLits THEN Decoded(JStr(<<LitText[c]>>), idx + 1)
  ELSE IF c = LB THEN JSONObject(s, idx + 1)
  ELSE JSONDecodeError

\* the object whose "{" is s[end - 1]
JSONObject(s, end) ==
  LET e == SkipWs(s, end) IN
  IF At(s, e) = RB THEN Decoded(EmptyObj, e + 1)
  ELSE IF At(s, e) \notin StrLits THEN JSONDecodeError
  ELSE ObjectPairs(s, e, <<>>)

\* the members from the key s[k] on; a repeated key keeps its last value
ObjectPairs(s, k, pairs) ==
  LET c == SkipWs(s, k + 1) IN
  IF At(s, c) # COLON THEN JSONDecodeError
  ELSE
    LET v == scan_once(s, SkipWs(s, c + 1)) IN
    IF ~v.ok THEN JSONDecodeError
    ELSE
      LET pairs2 == (LitText[s[k]] :> v.val) @@ pairs
          n == SkipWs(s, v.end)
      IN
      IF At(s, n) = RB THEN Decoded(JObj(pairs2), n + 1)
      ELSE IF At(s, n) # COMMA THEN JSONDecodeError
      ELSE
        LET k2 == SkipWs(s, n + 1) IN
        IF At(s, k2) \in StrLits THEN ObjectPairs(s, k2, pairs2)
        ELSE JSONDecodeError

\* JSONDecoder.raw_decode: the first value, whatever follows it
raw_decode_only(s) == scan_once(s, SkipWs(s, 1))

\* JSONDecoder.decode: the one value of the text, blanks around it allowed
json_loads(s) ==
  LET r == scan_once(s, SkipWs(s, 1)) IN
  IF ~r.ok THEN JSONDecodeError
  ELSE IF SkipWs(s, r.end) # Len(s) + 1 THEN JSONDecodeError
  ELSE r

(***************************************************************************)
(* The extraction step of chat(): app.py 83-95, sampleapp.py 91-103        *)
(***************************************************************************)
\* "{" in raw_answer
HasBrace(s) == \E i \in 1..Len(s) : s[i] = LB

FirstBrace(s) == CHOOSE i \in 1..Len(s) : s[i] = LB /\ \A j \in 1..(i - 1) : s[j] # LB

\* parts[0]: the text before the first "{"
BeforeBrace(s) == SubSeq(s, 1, FirstBrace(s) - 1)

\* strip() in both branches
HumanPartTrimmed(raw) == IF HasBrace(raw) THEN strip(BeforeBrace(raw)) ELSE strip(raw)

\* lines 83-88: human_part
HumanPart(raw) == IF HasBrace(raw) THEN strip(BeforeBrace(raw)) ELSE raw

\* lines 83-89: json_part
JsonPart(raw) ==
  IF HasBrace(raw) THEN SubSeq(raw, FirstBrace(raw), Len(raw)) ELSE <<LB, RB>>

\* the parsed object itself when it has no "filters"
GetFiltersOrSelf(parsed_json) ==
  IF "filters" \in DOMAIN parsed_json.m THEN parsed_json.m["filters"] ELSE parsed_json

\* line 93: parsed_json.get("filters", {})
GetFilters(parsed_json) ==
  IF "filters" \in DOMAIN parsed_json.m THEN parsed_json.m["filters"] ELSE EmptyObj

\* lines 91-95: the try block; [raised] is an exception other than
\* json.JSONDecodeError (get on a value that is no dict)
ParseFilters(part) ==
  LET r == json_loads(part) IN
  IF ~r.ok THEN [raised |-> FALSE, filters |-> EmptyObj]
  ELSE IF r.val.kind # "obj" THEN [raised |-> TRUE, filters |-> EmptyObj]
  ELSE [raised |-> FALSE, filters |-> GetFilters(r.val)]

(***************************************************************************)
(* HTTP: requests, responses, and the collaborators of a request           *)
(***************************************************************************)
Json(status, body) == [status |-> status, json |-> TRUE, body |-> body]

\* an exception left the view function: Flask answers 500 with an error page
InternalServerError == [status |-> 500, json |-> FALSE, body |-> <<>>]

NoResponse == [status |-> 0, json |-> FALSE, body |-> <<>>]
NotCalled == [kind |-> "not_called"]
NoRequest ==
  [route |-> "none", form |-> <<>>, upstream |-> NotCalled, store |-> "not_called"]

Req(route, form, upstream, store) ==
  [route |-> route, form |-> form, upstream |-> upstream, store |-> store]

\* request.form.get(key, default), dict.get(key, default)
FormGet(form, key, default) == IF key \in DOMAIN form THEN form[key] ELSE default

\* datetime.now().strftime("%Y-%m-%d %H:%M:%S"): [now] is the second of the
\* wall clock; the text of a later second is the greater string
strftime(now) == now

ObjectId(n) == [oid |-> n]

\* str(result.inserted_id)
str(oid) == [hex |-> oid.oid]

\* the value is of a type Flask's JSON provider has no encoding for
IsObjectId(v) == DOMAIN v = {"oid"}

\* jsonify(final_output): TypeError on an ObjectId
jsonify(final_output) ==
  IF "_id" \in DOMAIN final_output /\ IsObjectId(final_output["_id"])
  THEN InternalServerError
  ELSE Json(200, final_output)

Outcome(resp, docs, now, req) ==
  [response |-> resp, docs |-> docs, clock |-> now, request |-> req]

(***************************************************************************)
(* chat() of app.py 70-114 and sampleapp.py 78-122                         *)
(***************************************************************************)
\* msg is None
MissingOnly(form) == "msg" \notin DOMAIN form

\* line 73: not msg, with msg = request.form.get("msg")
NoMessage(form) == "msg" \notin DOMAIN form \/ form["msg"] = <<>>

\* replace_one({}, document, upsert=True)
ReplaceOne(docs, document) == <<document>>

\* line 107: what insert_one leaves in the collection
InsertOne(docs, document) == Append(docs, document)

\* lines 98-114: final_output, insert_one, jsonify.  insert_one puts a fresh
\* ObjectId under "_id" in the dict it is given before it writes, so a write
\* that raises leaves the ObjectId in final_output; when chat_collection was
\* never defined (lines 28-34) the call raises NameError before that.
SaveAndReply(form, rag, ins, now, human, fltrs) ==
  LET final_output == [user_input |-> form["msg"], answer |-> human,
                       filters |-> fltrs, timestamp |-> strftime(now)]
      oid == ObjectId(Len(chat_collection) + 1)
  IN
  IF ~mongo_connected
  THEN Outcome(jsonify(final_output), chat_collection, now,
               Req("/get", form, rag, "name_error"))
  ELSE IF ins = "error"
  THEN Outcome(jsonify(("_id" :> oid) @@ final_output), chat_collection, now,
               Req("/get", form, rag, "error"))
  ELSE Outcome(jsonify(("_id" :> str(oid)) @@ final_output),
               InsertOne(chat_collection, ("_id" :> oid) @@ final_output), now,
               Req("/get", form, rag, "ok"))

\* lines 70-114
ChatApp(form, rag, ins, now) ==
  IF NoMessage(form)
  THEN Outcome(Json(400, [error |-> "No message provided"]), chat_collection,
               clock, Req("/get", form, NotCalled, "not_called"))
  ELSE IF rag.kind = "raises"
  THEN Outcome(InternalServerError, chat_collection, clock,
               Req("/get", form, rag, "not_called"))
  ELSE
    LET raw == IF rag.kind = "answer" THEN rag.answer ELSE <<>>
        parsed == ParseFilters(JsonPart(raw))
    IN
    IF parsed.raised
    THEN Outcome(InternalServerError, chat_collection, clock,
                 Req("/get", form, rag, "not_called"))
    ELSE SaveAndReply(form, rag, ins, now, HumanPart(raw), parsed.filters)

(***************************************************************************)
(* history() of app.py 117-124 and sampleapp.py 125-132                    *)
(***************************************************************************)
HistoryLimit == 10

\* find({}, {"_id": 0})
Project(doc) == [k \in (DOMAIN doc) \ {"_id"} |-> doc[k]]

\* sort("timestamp", -1): document i comes before document j.  The order of
\* documents with equal timestamps is the server's: here insertion order
\* ("natural") or its reverse.
Before(docs, i, j, tie) ==
  \/ docs[i].timestamp > docs[j].timestamp
  \/ /\ docs[i].timestamp = docs[j].timestamp
     /\ IF tie = "natural" THEN i < j ELSE i > j

SortDesc(docs, tie) ==
  [k \in 1..Len(docs) |->
     docs[CHOOSE i \in 1..Len(docs) :
            Cardinality({j \in 1..Len(docs) : Before(docs, j, i, tie)}) = k - 1]]

\* the cursor without limit()
Unlimited(docs, n) == docs

\* limit(n)
Limit(docs, n) == SubSeq(docs, 1, IF Len(docs) < n THEN Len(docs) ELSE n)

\* lines 117-124
HistoryView(find_ok, tie) ==
  IF ~mongo_connected \/ ~find_ok
  THEN Json(500, [error |-> "str(e)"])
  ELSE LET chats == Limit(SortDesc(chat_collection, tie), HistoryLimit) IN
       Json(200, [k \in 1..Len(chats) |-> Project(chats[k])])

(***************************************************************************)
(* chat() of test2.py 26-70 and test3.py 42-144                            *)
(***************************************************************************)
\* meta = match.metadata or {}
MetadataOf(match) == IF match.has_metadata THEN match.metadata ELSE <<>>

\* test2.py 39-50, test3.py 67-78: the matches grouped by source
RECURSIVE Group(_, _)
Group(matches, grouped) ==
  IF matches = <<>> THEN grouped
  ELSE
    LET meta == MetadataOf(Head(matches))
        source == FormGet(meta, "source", "unknown_source")
        text == FormGet(meta, "text", <<>>)
        loaded == json_loads(text)
        item == IF loaded.ok THEN loaded.val ELSE JObj("text" :> JStr(text))
        sofar == IF source \in DOMAIN grouped THEN grouped[source] ELSE <<>>
    IN
    Group(Tail(matches),
          IF text # <<>> THEN (source :> Append(sofar, item)) @@ grouped
          ELSE grouped)

Tests(pine, llm, repair) == [kind |-> "tests", pine |-> pine, llm |-> llm, repair |-> repair]

\* test2.py
ChatTest2(form, pine, llm) ==
  LET query == strip(FormGet(form, "msg", <<>>)) IN
  IF query = <<>>
  THEN Outcome(Json(200, [summary |-> <<"Please enter a query.">>,
                          structured_output |-> <<>>]),
               chat_collection, clock,
               Req("/get", form, Tests(pine, llm, NotCalled), "not_called"))
  ELSE IF pine.raises
  THEN Outcome(InternalServerError, chat_collection, clock,
               Req("/get", form, Tests(pine, llm, NotCalled), "not_called"))
  ELSE
    LET structured_output == Group(pine.matches, <<>>)
        summary == IF llm.raises THEN <<"Error generating summary: e">>
                   ELSE strip(llm.text)
    IN
    Outcome(Json(200, [summary |-> summary, structured_output |-> structured_output]),
            chat_collection, clock,
            Req("/get", form, Tests(pine, llm, NotCalled), "not_called"))

Fences == {FENCE_JSON, FENCE}

\* test3.py 124: both fences replaced by the empty string
RemoveFences(text) == SelectSeq(text, LAMBDA c : c \notin Fences)

\* test3.py 26-35; [repair] is what json.loads(repair_json(llm_output)) does
validate_and_repair_json(llm_output, repair) ==
  LET r == json_loads(llm_output) IN
  IF r.ok THEN [ok |-> TRUE, val |-> r.val]
  ELSE IF repair.ok THEN [ok |-> TRUE, val |-> repair.val]
  ELSE [ok |-> FALSE, val |-> EmptyObj]

Get(obj, key, default) == IF key \in DOMAIN obj.m THEN obj.m[key] ELSE default

\* test3.py 133-137
Test3Except(structured_output) ==
  [summary |-> JStr(<<"Error validating or generating query: e">>),
   validated_output |-> structured_output,
   elasticsearch_query |-> EmptyObj]

\* test3.py 119-137
Test3Parse(llm, repair, structured_output) ==
  IF llm.raises THEN Test3Except(structured_output)
  ELSE
    LET llm_output == strip(RemoveFences(strip(llm.text)))
        parsed == validate_and_repair_json(llm_output, repair)
    IN
    IF ~parsed.ok \/ parsed.val.kind # "obj" THEN Test3Except(structured_output)
    ELSE [summary |-> Get(parsed.val, "summary", JStr(<<"No summary generated.">>)),
          validated_output |-> Get(parsed.val, "validated_output", structured_output),
          elasticsearch_query |-> Get(parsed.val, "elasticsearch_query", EmptyObj)]

Test3BodyFromModel(step4, structured_output) ==
  [summary |-> step4.summary,
   validated_output |-> step4.validated_output,
   elasticsearch_query |-> step4.elasticsearch_query]

\* test3.py 140-144
Test3Body(step4, structured_output) ==
  [summary |-> step4.summary,
   validated_output |-> structured_output,
   elasticsearch_query |-> step4.elasticsearch_query]

\* test3.py
ChatTest3(form, pine, llm, repair) ==
  LET query == strip(FormGet(form, "msg", <<>>)) IN
  IF query = <<>>
  THEN Outcome(Json(200, [summary |-> JStr(<<"Please enter a query.">>),
                          validated_output |-> <<>>,
                          elasticsearch_query |-> EmptyObj]),
               chat_collection, clock,
               Req("/get", form, Tests(pine, llm, repair), "not_called"))
  ELSE IF pine.raises
  THEN Outcome(Json(200, [summary |-> JStr(<<"Error connecting to database: e">>),
                          validated_output |-> <<>>,
                          elasticsearch_query |-> EmptyObj]),
               chat_collection, clock,
               Req("/get", form, Tests(pine, llm, repair), "not_called"))
  ELSE
    LET structured_output == Group(pine.matches, <<>>) IN
    Outcome(Json(200, Test3Body(Test3Parse(llm, repair, structured_output),
                                structured_output)),
            chat_collection, clock,
            Req("/get", form, Tests(pine, llm, repair), "not_called"))

(***************************************************************************)
(* load_json_files of src/helper.py 9-55                                   *)
(*                                                                         *)
(* A file is its name and what json.load makes of it: an exception, or a   *)
(* list, a dict (its items in order) or another value.  A value is a str   *)
(* (its text) or something else.                                           *)
(***************************************************************************)
Str(text) == [kind |-> "str", text |-> text]
Other == [kind |-> "other"]
Dict(items) == [kind |-> "dict", items |-> items]
List(items) == [kind |-> "list", items |-> items]

Document(page_content, metadata) ==
  [page_content |-> page_content, metadata |-> metadata]

\* file_name.endswith(".json")
EndsWithJson(file_name) == file_name \in {"a.json", "b.json"}

\* isinstance(value, str)
IsStr(value) == value.kind = "str"

\* isinstance(value, str) and value.strip()
IsCleanStr(value) == value.kind = "str" /\ strip(value.text) # <<>>

\* lines 31-36 and 44-49: one Document per clean string value of a dict;
\* [where] is the metadata without the key
RECURSIVE DictDocuments(_, _)
DictDocuments(items, where) ==
  IF items = <<>> THEN <<>>
  ELSE LET key == Head(items)[1]
           value == Head(items)[2]
       IN
       (IF IsCleanStr(value)
        THEN <<Document(strip(value.text), ("key" :> key) @@ where)>>
        ELSE <<>>)
       \o DictDocuments(Tail(items), where)

\* lines 29-41: the records of a list, from position i (enumerate counts from 0)
RECURSIVE ListDocuments(_, _, _)
ListDocuments(records, i, file_name) ==
  IF i > Len(records) THEN <<>>
  ELSE LET record == records[i]
           where == [source |-> file_name, index |-> i - 1]
       IN
       (IF record.kind = "dict" THEN DictDocuments(record.items, where)
        ELSE IF IsCleanStr(record) THEN <<Document(strip(record.text), where)>>
        ELSE <<>>)
       \o ListDocuments(records, i + 1, file_name)

\* lines 23-52: the Documents of one file; an exception leaves none
FileDocuments(file) ==
  IF file.malformed THEN <<>>
  ELSE IF file.json_data.kind = "list"
  THEN ListDocuments(file.json_data.items, 1, file.name)
  ELSE IF file.json_data.kind = "dict"
  THEN DictDocuments(file.json_data.items, [source |-> file.name])
  ELSE <<>>

(***************************************************************************)
(* Raw answers: a prefix without "{" followed by nothing, by arbitrary text *)
(* from a "{" on, by a JSON object cut short, or by a JSON object as the   *)
(* language model may print it and a trailer.                              *)
(***************************************************************************)
MaxPrefix == 2
MaxTail == 3

Alphabet == {WS, LB, RB, COLON, COMMA, LETTER, "\"filters\"", "\"x\""}

PrefixAlphabet == {WS, LETTER, "\"x\""}
Prefixes == SeqsUpTo(PrefixAlphabet, MaxPrefix)

Keys == {"filters", "x"}
Leaves == {JStr(<<"x">>), EmptyObj}
ObjectsOver(V) == UNION {{JObj(f) : f \in [K -> V]} : K \in (SUBSET Keys) \ {{}}}
Values == Leaves \cup ObjectsOver(Leaves)
Objects ==
  {EmptyObj}
    \cup {JObj(f) : f \in [{"filters"} -> Values]}
    \cup {JObj(f) : f \in [{"x"} -> Values]}
    \cup {JObj(f) : f \in [filters : Values, x : Leaves]}

Styles == [spaced : BOOLEAN, xfirst : BOOLEAN]

\* the keys of an object in the order they are printed
KeyOrder(f, st) ==
  IF DOMAIN f = Keys
  THEN IF st.xfirst THEN <<"x", "filters">> ELSE <<"filters", "x">>
  ELSE IF DOMAIN f = {} THEN <<>> ELSE <<CHOOSE k \in DOMAIN f : TRUE>>

RECURSIVE Render(_, _)
RECURSIVE RenderPairs(_, _, _)

\* a JSON value as text
Render(v, st) ==
  IF v.kind = "str" THEN <<Quote(v.s[1])>>
  ELSE <<LB>> \o RenderPairs(v.m, KeyOrder(v.m, st), st) \o <<RB>>

RenderPairs(f, ks, st) ==
  IF ks = <<>> THEN <<>>
  ELSE <<Quote(Head(ks)), COLON>> \o (IF st.spaced THEN <<WS>> ELSE <<>>)
       \o Render(f[Head(ks)], st)
       \o (IF Len(ks) > 1
           THEN <<COMMA>> \o (IF st.spaced THEN <<WS>> ELSE <<>>)
                \o RenderPairs(f, Tail(ks), st)
           ELSE <<>>)

\* what may follow the object: nothing or blanks (still valid JSON), or text
BlankTrailers == {<<>>, <<WS>>}
TextTrailers == {<<LETTER>>, <<WS, LETTER>>, <<RB>>, <<COMMA>>, <<LB, RB>>}

\* an object that stops before its closing brace
Truncated ==
  {SubSeq(Render(o, st), 1, Len(Render(o, st)) - 1) : o \in Objects, st \in Styles}

FreeTails ==
  {<<>>} \cup {<<LB>> \o t : t \in SeqsUpTo(Alphabet, MaxTail - 1)} \cup Truncated

GivenText == [form : {"text"}, prefix : Prefixes, obj : {EmptyObj},
              tail : FreeTails, trailer : {<<>>}]

GivenObject ==
  {[form |-> "object", prefix |-> p, obj |-> o, tail |-> Render(o, st) \o t,
    trailer |-> t] :
     p \in Prefixes, o \in Objects, st \in Styles,
     t \in BlankTrailers \cup TextTrailers}

(***************************************************************************)
(* The inputs of the requests                                              *)
(***************************************************************************)
MaxStore == 2
MaxClock == 1
MaxMatches == 2

Variants == {"app", "sampleapp", "test2", "test3"}
WithStore == {"app", "sampleapp"}

\* no msg field, an empty one, a blank one, a letter
Forms == {<<>>} \cup {[msg |-> t] : t \in {<<>>, <<WS>>, <<LETTER>>}}

\* what rag_chain.invoke does: it raises, or returns a dict with or without "answer"
Answer(text) == [kind |-> "answer", answer |-> text]
RawAnswers ==
  {<<WS, LETTER>>,
   <<LETTER, WS, LB, "\"filters\"", COLON, "\"x\"", RB>>,
   <<LB, "\"x\"", COLON, "\"x\"", RB>>,
   <<LETTER, LB, RB, LETTER>>}
RagOutcomes ==
  {[kind |-> "raises"], [kind |-> "no_answer"]} \cup {Answer(t) : t \in RawAnswers}

Inserts == {"ok", "error"}

\* what index.query returns or raises
MatchSet ==
  {[has_metadata |-> FALSE, metadata |-> <<>>],
   [has_metadata |-> TRUE,
    metadata |-> [source |-> "Subindustry.json", text |-> <<LB, RB>>]],
   [has_metadata |-> TRUE, metadata |-> [text |-> <<LETTER>>]]}
PineOutcomes ==
  {[kind |-> "pine", raises |-> TRUE, matches |-> <<>>]}
    \cup {[kind |-> "pine", raises |-> FALSE, matches |-> ms] :
            ms \in SeqsUpTo(MatchSet, MaxMatches)}

\* what llm.invoke returns or raises
LlmTexts ==
  {<<WS, LETTER>>,
   <<LB, "\"summary\"", COLON, "\"x\"", COMMA, "\"elasticsearch_query\"", COLON,
     LB, "\"x\"", COLON, "\"x\"", RB, RB>>,
   <<FENCE_JSON, WS, LB, "\"summary\"", COLON, "\"x\"", RB, WS, FENCE>>,
   <<LB, "\"validated_output\"", COLON, LB, RB, COMMA, "\"elasticsearch_query\"",
     COLON, LB, RB, RB, WS>>,
   <<"\"x\"">>,
   <<LB, "\"summary\"", COLON, "\"x\"", COMMA>>}
LlmOutcomes ==
  {[kind |-> "llm", raises |-> TRUE, text |-> <<>>]}
    \cup {[kind |-> "llm", raises |-> FALSE, text |-> t] : t \in LlmTexts}

\* what json.loads(repair_json(llm_output)) returns or raises
Repairs ==
  {[kind |-> "repair", ok |-> FALSE, val |-> EmptyObj],
   [kind |-> "repair", ok |-> TRUE, val |-> JStr(<<>>)],
   [kind |-> "repair", ok |-> TRUE,
    val |-> JObj([summary |-> JStr(<<"x">>),
                  validated_output |-> EmptyObj,
                  elasticsearch_query |-> JObj([x |-> JStr(<<"x">>)])])]}

\* the collaborators a request reaches: the others are not called
PineFor(form) ==
  IF strip(FormGet(form, "msg", <<>>)) = <<>> THEN {NotCalled} ELSE PineOutcomes

LlmFor(pine) ==
  IF pine.kind = "not_called" \/ pine.raises THEN {NotCalled} ELSE LlmOutcomes

RepairFor(llm) ==
  IF llm.kind = "not_called" \/ llm.raises
     \/ json_loads(strip(RemoveFences(strip(llm.text)))).ok
  THEN {NotCalled} ELSE Repairs

(***************************************************************************)
(* The folders load_json_files is given                                    *)
(***************************************************************************)
MaxFiles == 2
MaxItems == 2

Dicts ==
  {Dict(<<>>),
   Dict(<< <<"a", Str(<<LETTER>>)>>, <<"b", Str(<<>>)>> >>),
   Dict(<< <<"a", Other>>, <<"b", Str(<<WS, LETTER, WS>>)>> >>)}

Records ==
  {Dict(<< <<"a", Str(<<LETTER>>)>>, <<"b", Str(<<WS>>)>> >>),
   Str(<<WS, LETTER>>), Str(<<WS>>), Other}

Contents ==
  {[malformed |-> TRUE, json_data |-> Other], [malformed |-> FALSE, json_data |-> Other]}
    \cup {[malformed |-> FALSE, json_data |-> d] : d \in Dicts}
    \cup {[malformed |-> FALSE, json_data |-> List(l)] : l \in SeqsUpTo(Records, MaxItems)}

FileNames == {"a.json", "b.json", "notes.txt"}

\* what a file of that name may hold; a file that is not opened holds anything
ContentsOf(file_name) ==
  IF EndsWithJson(file_name) THEN Contents
  ELSE {[malformed |-> TRUE, json_data |-> Other]}

\* os.listdir(data_folder): no two files of a folder have the same name
NameLists ==
  {ns \in SeqsUpTo(FileNames, MaxFiles) :
     \A i \in 1..Len(ns) : \A j \in 1..Len(ns) : ns[i] = ns[j] => i = j}

\* the folders whose files have these names, in this order
RECURSIVE FoldersOf(_)
FoldersOf(names) ==
  IF names = <<>> THEN {<<>>}
  ELSE {<<[name |-> Head(names), malformed |-> c.malformed,
           json_data |-> c.json_data]>> \o rest :
          c \in ContentsOf(Head(names)), rest \in FoldersOf(Tail(names))}

(***************************************************************************)
(* The parts of the state a specification leaves alone                     *)
(***************************************************************************)
ExtractIdle ==
  /\ given = [form |-> "none"]
  /\ raw_answer = <<>>
  /\ human_part = <<>>
  /\ json_part = <<>>
  /\ filters = EmptyObj
  /\ raised = FALSE
  /\ pc = "idle"

HttpIdle ==
  /\ variant = "none"
  /\ mongo_connected = FALSE
  /\ chat_collection = <<>>
  /\ clock = 0
  /\ request = NoRequest
  /\ response = NoResponse

LoaderIdle ==
  /\ data_folder = <<>>
  /\ file_idx = 0
  /\ documents = <<>>
  /\ loader_pc = "idle"

(***************************************************************************)
(* The applications serving requests                                       *)
(***************************************************************************)
Init ==
  /\ ExtractIdle
  /\ variant \in Variants
  /\ mongo_connected \in IF variant \in WithStore THEN BOOLEAN ELSE {FALSE}
  /\ chat_collection = <<>>
  /\ clock = 0
  /\ request = NoRequest
  /\ response = NoResponse
  /\ LoaderIdle

Serve(outcome) ==
  /\ response' = outcome.response
  /\ chat_collection' = outcome.docs
  /\ clock' = outcome.clock
  /\ request' = outcome.request
  /\ UNCHANGED <<variant, mongo_connected, extractVars, loaderVars>>

\* POST /get of app.py and sampleapp.py
PostGetApp(forms, rags, inserts, maxStore, maxClock) ==
  /\ variant \in WithStore
  /\ Len(chat_collection) < maxStore
  /\ \E form \in forms, rag \in rags, ins \in inserts :
       \E now \in {t \in {clock, clock + 1} : t <= maxClock} :
         Serve(ChatApp(form, rag, ins, now))

\* GET /history of app.py and sampleapp.py
GetHistory ==
  /\ variant \in WithStore
  /\ \E find_ok \in BOOLEAN, tie \in {"natural", "reverse"} :
       /\ response' = HistoryView(find_ok, tie)
       /\ request' = Req("/history", <<>>, NotCalled,
                         IF mongo_connected /\ find_ok THEN tie
                         ELSE IF mongo_connected THEN "error" ELSE "name_error")
       /\ UNCHANGED <<variant, mongo_connected, chat_collection, clock, extractVars,
                      loaderVars>>

\* POST /get of test2.py
PostGetTest2 ==
  /\ variant = "test2"
  /\ \E form \in Forms : \E pine \in PineFor(form) : \E llm \in LlmFor(pine) :
       Serve(ChatTest2(form, pine, llm))

\* POST /get of test3.py
PostGetTest3 ==
  /\ variant = "test3"
  /\ \E form \in Forms : \E pine \in PineFor(form) : \E llm \in LlmFor(pine) :
       \E repair \in RepairFor(llm) :
         Serve(ChatTest3(form, pine, llm, repair))

PostGet == PostGetApp(Forms, RagOutcomes, Inserts, MaxStore, MaxClock)

Next == PostGet \/ GetHistory \/ PostGetTest2 \/ PostGetTest3

Spec == Init /\ [][Next]_vars

(***************************************************************************)
(* app.py with a connected store and more than HistoryLimit requests       *)
(***************************************************************************)
HMaxStore == 11
HMaxClock == 2

\* every request carries a message of its own: the k-th is k letters long
HForms == {[msg |-> [i \in 1..(Len(chat_collection) + 1) |-> LETTER]]}
HRagOutcomes == {Answer(<<LETTER>>)}

InitHistory ==
  /\ ExtractIdle
  /\ variant = "app"
  /\ mongo_connected = TRUE
  /\ chat_collection = <<>>
  /\ clock = 0
  /\ request = NoRequest
  /\ response = NoResponse
  /\ LoaderIdle

PostGetStored == PostGetApp(HForms, HRagOutcomes, {"ok"}, HMaxStore, HMaxClock)

NextHistory == PostGetStored \/ GetHistory

SpecHistory == InitHistory /\ [][NextHistory]_vars

(***************************************************************************)
(* The extraction step on its own                                          *)
(***************************************************************************)
InitExtract ==
  /\ given \in GivenText \cup GivenObject
  /\ raw_answer = given.prefix \o given.tail
  /\ human_part = <<>>
  /\ json_part = <<>>
  /\ filters = EmptyObj
  /\ raised = FALSE
  /\ pc = "split"
  /\ HttpIdle
  /\ LoaderIdle

\* app.py 83-89
Split ==
  /\ pc = "split"
  /\ human_part' = HumanPart(raw_answer)
  /\ json_part' = JsonPart(raw_answer)
  /\ pc' = "parse"
  /\ UNCHANGED <<given, raw_answer, filters, raised, httpVars, loaderVars>>

\* app.py 91-95
Parse ==
  /\ pc = "parse"
  /\ LET r == ParseFilters(json_part) IN
       /\ filters' = r.filters
       /\ raised' = r.raised
  /\ pc' = "done"
  /\ UNCHANGED <<given, raw_answer, human_part, json_part, httpVars, loaderVars>>

NextExtract == Split \/ Parse

SpecExtract == InitExtract /\ [][NextExtract]_vars

(***************************************************************************)
(* load_json_files running over a folder                                   *)
(***************************************************************************)
InitLoader ==
  /\ ExtractIdle
  /\ HttpIdle
  /\ \E names \in NameLists : data_folder \in FoldersOf(names)
  /\ file_idx = 1
  /\ documents = <<>>
  /\ loader_pc = "loop"

\* lines 18-52: one turn of the loop
LoadFile ==
  /\ loader_pc = "loop"
  /\ file_idx <= Len(data_folder)
  /\ documents' =
       IF EndsWithJson(data_folder[file_idx].name)
       THEN documents \o FileDocuments(data_folder[file_idx])
       ELSE documents
  /\ file_idx' = file_idx + 1
  /\ UNCHANGED <<data_folder, loader_pc, extractVars, httpVars>>

\* lines 54-55
ReturnDocuments ==
  /\ loader_pc = "loop"
  /\ file_idx > Len(data_folder)
  /\ loader_pc' = "returned"
  /\ UNCHANGED <<data_folder, file_idx, documents, extractVars, httpVars>>

NextLoader == LoadFile \/ ReturnDocuments

SpecLoader == InitLoader /\ [][NextLoader]_vars

(***************************************************************************)
(* Claims about the extraction step                                        *)
(***************************************************************************)
AllBlank(s) == \A i \in 1..Len(s) : s[i] = WS

\* h is t without its leading and trailing blanks
IsTrimOf(h, t) ==
  /\ h = <<>> \/ (h[1] # WS /\ h[Len(h)] # WS)
  /\ \E i \in 0..Len(t) : \E j \in i..Len(t) :
       /\ h = SubSeq(t, i + 1, j)
       /\ AllBlank(SubSeq(t, 1, i))
       /\ AllBlank(SubSeq(t, j + 1, Len(t)))

NoBrace(s) == \A i \in 1..Len(s) : s[i] # LB

\* the raw answer is a prefix without "{" followed by a valid JSON object
PrefixThenObject == given.form = "object" /\ given.trailer \in BlankTrailers

\* the raw answer is a valid JSON object followed by trailing text
ObjectThenText == given.form = "object" /\ given.trailer \in TextTrailers

\* C3 as claimed: for every raw answer without "{", the extraction step returns
\* the raw text trimmed of leading and trailing blanks as human_part, and
\* filters = {}.
C3_NoBraceTrimmed ==
  (pc = "done" /\ NoBrace(raw_answer)) =>
    (IsTrimOf(human_part, raw_answer) /\ filters = EmptyObj)

\* C3 as amended: for every raw answer without "{", the extraction step raises
\* nothing and returns the raw text unchanged, its leading and trailing blanks
\* kept, as human_part, and filters = {}.
C3_NoBraceUnchanged ==
  (pc = "done" /\ NoBrace(raw_answer)) =>
    (~raised /\ human_part = raw_answer /\ filters = EmptyObj)

C3_Witness ==
  /\ pc = "done" /\ NoBrace(raw_answer)
  /\ Len(raw_answer) = 2
  /\ raw_answer[1] = WS /\ raw_answer[2] = LETTER
  /\ human_part = raw_answer

EmptyOrMissing(form) == \A k \in DOMAIN form : k = "msg" /\ Len(form[k]) = 0

PostedGet == request.route = "/get"

ModelAnswered ==
  /\ PostedGet /\ variant \in WithStore
  /\ ~EmptyOrMissing(request.form)
  /\ request.upstream.kind \in {"answer", "no_answer"}

\* C6: when the store write fails in POST /get (non-empty msg, model call
\* succeeded), the response is still 200 with the user_input, answer, filters
\* and timestamp of a successful write, and without an _id field.
C6_WriteFailureStill200 ==
  (ModelAnswered /\ request.store \in {"error", "name_error"}) =>
    /\ response.status = 200
    /\ response.json
    /\ DOMAIN response.body = {"user_input", "answer", "filters", "timestamp"}
    /\ response.body.user_input = request.form["msg"]
    /\ response.body.timestamp = clock

\* the retriever, the vector index or the language model raised
UpstreamRaised ==
  /\ PostedGet
  /\ request.upstream.kind # "not_called"
  /\ IF variant \in WithStore THEN request.upstream.kind = "raises"
     ELSE \/ request.upstream.pine.kind = "pine" /\ request.upstream.pine.raises
          \/ request.upstream.llm.kind = "llm" /\ request.upstream.llm.raises

\* C7: in POST /get with a non-empty msg, an exception of the retriever / vector
\* index call or of the language-model call never leaves the handler: the
\* response is a normal JSON response with an error string in it.
C7_UpstreamFailureCaught ==
  UpstreamRaised => (response.status = 200 /\ response.json)

IsPrefix(a, b) == Len(a) <= Len(b) /\ a = SubSeq(b, 1, Len(a))

\* C9: the history store only grows by appends: a POST /get with a non-empty msg
\* whose store write succeeds adds exactly one entry (user_input, answer,
\* filters, timestamp); a POST /get rejected for its msg and a GET /history add
\* none; no request changes or removes a stored entry.
C9_StoreOnlyAppends ==
  [][/\ IsPrefix(chat_collection, chat_collection')
     /\ (request'.route = "/get" /\ request'.store = "ok") <=>
          (Len(chat_collection') = Len(chat_collection) + 1)
     /\ (request'.route = "/get" /\ request'.store = "ok") =>
          LET entry == chat_collection'[Len(chat_collection')] IN
          /\ ~EmptyOrMissing(request'.form)
          /\ DOMAIN entry = {"_id", "user_input", "answer", "filters", "timestamp"}
          /\ entry.user_input = request'.form["msg"]
          /\ entry.timestamp = clock'
          /\ response'.status = 200
          /\ entry.answer = response'.body.answer
          /\ entry.filters = response'.body.filters
     /\ (request'.route = "/history"
         \/ (request'.route = "/get" /\ EmptyOrMissing(request'.form))) =>
          chat_collection' = chat_collection
    ]_vars

C9_Witness ==
  /\ Len(chat_collection) = MaxStore
  /\ request.route = "/history" /\ response.status = 200
  /\ chat_collection[1].user_input # chat_collection[MaxStore].user_input

\* the matches of a query, grouped by source, stated as a filter and a map
SourceOf(match) ==
  IF match.has_metadata /\ "source" \in DOMAIN match.metadata
  THEN match.metadata["source"] ELSE "unknown_source"

TextOf(match) ==
  IF match.has_metadata /\ "text" \in DOMAIN match.metadata
  THEN match.metadata["text"] ELSE <<>>

ItemOf(match) ==
  IF json_loads(TextOf(match)).ok THEN json_loads(TextOf(match)).val
  ELSE JObj([text |-> JStr(TextOf(match))])

GroupedBySource(matches) ==
  LET kept == SelectSeq(matches, LAMBDA m : TextOf(m) # <<>>) IN
  [src \in {SourceOf(kept[i]) : i \in 1..Len(kept)} |->
     LET mine == SelectSeq(kept, LAMBDA m : SourceOf(m) = src) IN
     [i \in 1..Len(mine) |-> ItemOf(mine[i])]]

\* test3.py answered a non-empty query whose vector-index query succeeded
Test3Retrieved ==
  /\ PostedGet /\ variant = "test3"
  /\ request.upstream.pine.kind = "pine"
  /\ ~request.upstream.pine.raises

\* neither json.loads nor the repair gave a value
Test3Unparsed ==
  \/ request.upstream.llm.raises
  \/ /\ request.upstream.repair.kind = "repair"
     /\ ~request.upstream.repair.ok

\* C10: in test3.py, with a non-empty query and a successful vector-index
\* query, validated_output is the retrieval results grouped by source whatever
\* the language model returns, and elasticsearch_query is the empty object
\* whenever parsing and repair both fail.
C10_ValidatedOutputIsRetrieval ==
  Test3Retrieved =>
    /\ response.status = 200 /\ response.json
    /\ DOMAIN response.body = {"summary", "validated_output", "elasticsearch_query"}
    /\ response.body.validated_output = GroupedBySource(request.upstream.pine.matches)
    /\ Test3Unparsed => response.body.elasticsearch_query = EmptyObj

C10_Witness ==
  /\ Test3Retrieved
  /\ ~request.upstream.llm.raises
  /\ \E i \in 1..Len(request.upstream.llm.text) :
       request.upstream.llm.text[i] = "\"validated_output\""
  /\ Len(request.upstream.pine.matches) = MaxMatches
  /\ \E src \in DOMAIN response.body.validated_output :
       Len(response.body.validated_output[src]) = MaxMatches
  /\ response.body.elasticsearch_query = EmptyObj

(***************************************************************************)
(* Claims about GET /history                                               *)
(***************************************************************************)
HistorySucceeded == request.route = "/history" /\ response.status = 200

Count(seq, x) == Cardinality({i \in 1..Len(seq) : seq[i] = x})

Stored == [i \in 1..Len(chat_collection) |-> Project(chat_collection[i])]

NewestFirst(seq) ==
  \A i \in 1..Len(seq) : \A j \in i..Len(seq) : seq[i].timestamp >= seq[j].timestamp

NoIdField(seq) == \A i \in 1..Len(seq) : "_id" \notin DOMAIN seq[i]

\* how many entries a successful GET /history returns
Returned == IF Len(chat_collection) < HistoryLimit THEN Len(chat_collection) ELSE HistoryLimit

NonBlank(value) == value.kind = "str" /\ \E i \in 1..Len(value.text) : value.text[i] # WS

Slot(metadata, value) == [metadata |-> metadata, value |-> value]

\* the values of a dict, each with the metadata [where] and its key
DictSlots(items, where) ==
  {Slot(("key" :> items[n][1]) @@ where, items[n][2]) : n \in 1..Len(items)}

\* the places of a file a record can come from: the values of a top-level
\* object; the values of an object in a top-level array and the strings of the
\* array, with the 0-based position in the array.  A file that is not named
\* *.json or does not parse has none.
Slots(file) ==
  IF file.name \notin {"a.json", "b.json"} \/ file.malformed THEN {}
  ELSE IF file.json_data.kind = "dict"
  THEN DictSlots(file.json_data.items, [source |-> file.name])
  ELSE IF file.json_data.kind = "list"
  THEN UNION {IF file.json_data.items[n].kind = "dict"
              THEN DictSlots(file.json_data.items[n].items,
                             [source |-> file.name, index |-> n - 1])
              ELSE {Slot([source |-> file.name, index |-> n - 1],
                         file.json_data.items[n])} :
                n \in 1..Len(file.json_data.items)}
  ELSE {}

RecordSlots ==
  {sl \in UNION {Slots(data_folder[f]) : f \in 1..Len(data_folder)} : NonBlank(sl.value)}

\* C8: load_json_files returns exactly one record for every non-blank string
\* value of a top-level object, of an object in a top-level array and of a
\* string in a top-level array, of every file named *.json that parses: its
\* content is the value trimmed, its metadata the file name, the key where there
\* is one and the 0-based array index where there is one.  Files with another
\* extension and files that do not parse give no record and do not stop the
\* files after them from being loaded.
C8_OneRecordPerStringValue ==
  loader_pc = "returned" =>
    /\ Len(documents) = Cardinality(RecordSlots)
    /\ \A sl \in RecordSlots : \E d \in 1..Len(documents) :
         /\ documents[d].metadata = sl.metadata
         /\ IsTrimOf(documents[d].page_content, sl.value.text)
    /\ \A d \in 1..Len(documents) : \E sl \in RecordSlots :
         documents[d].metadata = sl.metadata

C8_Witness ==
  /\ loader_pc = "returned"
  /\ Len(data_folder) = 2
  /\ data_folder[1].name = "a.json" /\ data_folder[1].malformed
  /\ Len(documents) = 2
  /\ \E d \in 1..Len(documents) :
       /\ DOMAIN documents[d].metadata = {"source", "index"}
       /\ documents[d].metadata.index = 1
       /\ documents[d].page_content = <<LETTER>>
  /\ \E sl \in Slots(data_folder[2]) : sl.value.kind = "str" /\ ~NonBlank(sl.value)

====
